---- MODULE Spec2Model ----
(***************************************************************************)
(* A model of cnnClassifier/utils/common.py: nine file utilities acting on *)
(* a filesystem and a logger.  Files hold byte sequences; text is ASCII,   *)
(* one byte per character.                                                  *)
(***************************************************************************)
EXTENDS Integers, Sequences, FiniteSets, TLC

VARIABLES
    fs,      \* the filesystem: path -> [kind, data]
    log,     \* the lines logger.info has written
    call,    \* the last call: its operation, arguments, outcome and result
    prev,    \* fs, log and call as they were before the last call
    given,   \* the value the caller holds and passes in
    budget   \* the calls the caller has yet to make

vars == <<fs, log, call, prev, given, budget>>

(***************************************************************************)
(* Characters                                                               *)
(***************************************************************************)

\* The byte of an ASCII character.
Ord(c) ==
    CASE c = "\n" -> 10 [] c = " " -> 32 [] c = "!" -> 33 [] c = "\"" -> 34
      [] c = "+" -> 43 [] c = "," -> 44 [] c = "-" -> 45 [] c = "." -> 46
      [] c = "/" -> 47 [] c = "0" -> 48 [] c = "9" -> 57 [] c = ":" -> 58
      [] c = "=" -> 61 [] c = "A" -> 65 [] c = "K" -> 75 [] c = "N" -> 78 [] c = "Z" -> 90
      [] c = "[" -> 91 [] c = "\\" -> 92 [] c = "]" -> 93
      [] c = "a" -> 97 [] c = "b" -> 98 [] c = "e" -> 101 [] c = "f" -> 102 [] c = "k" -> 107
      [] c = "l" -> 108 [] c = "n" -> 110 [] c = "r" -> 114 [] c = "s" -> 115
      [] c = "t" -> 116 [] c = "u" -> 117 [] c = "w" -> 119
      [] c = "z" -> 122
      [] c = "{" -> 123 [] c = "}" -> 125 [] c = "~" -> 126 [] c = "B" -> 66

\* The bytes of a sequence of characters.
Text(cs) == [i \in 1..Len(cs) |-> Ord(cs[i])]

IsDigit(b) == b >= Ord("0") /\ b <= Ord("9")

\* The whitespace json's scanner skips: space, tab, newline, carriage return.
IsJsonWs(b) == b \in {32, 9, 10, 13}

(***************************************************************************)
(* In-memory values: what save_json is given and load_json returns.        *)
(* A dict is a sequence of <<key, value>> pairs with distinct keys, in     *)
(* insertion order; a str is its sequence of characters; "obj" is an       *)
(* object the json encoder has no encoding for.                            *)
(***************************************************************************)

JNull == [t |-> "null", v |-> 0]
JBool(b) == [t |-> "bool", v |-> b]
JInt(n) == [t |-> "int", v |-> n]
JStr(s) == [t |-> "str", v |-> s]
JList(xs) == [t |-> "list", v |-> xs]
JDict(ps) == [t |-> "dict", v |-> ps]
JObj == [t |-> "obj", v |-> 0]

(***************************************************************************)
(* json.dump(data, f, indent=4)                                            *)
(***************************************************************************)

Indent == 4

RECURSIVE Digits(_)
Digits(n) ==
    IF n < 10 THEN <<Ord("0") + n>>
    ELSE Digits(n \div 10) \o <<Ord("0") + (n % 10)>>

\* int.__repr__
IntStr(n) == IF n < 0 THEN <<Ord("-")>> \o Digits(-n) ELSE Digits(n)

RECURSIVE EscapeChars(_, _)
EscapeChars(s, i) ==
    IF i > Len(s) THEN <<>>
    ELSE (CASE s[i] = Ord("\"") -> <<Ord("\\"), Ord("\"")>>
            [] s[i] = Ord("\\") -> <<Ord("\\"), Ord("\\")>>
            [] s[i] = Ord("\n") -> <<Ord("\\"), Ord("n")>>
            [] OTHER -> <<s[i]>>) \o EscapeChars(s, i + 1)

\* json.encoder.py_encode_basestring_ascii, for printable ASCII and newline.
EncodeString(s) == <<Ord("\"")>> \o EscapeChars(s, 1) \o <<Ord("\"")>>

NewlineIndent(level) == <<Ord("\n")>> \o [i \in 1..(Indent * level) |-> Ord(" ")]

\* json.encoder._make_iterencode: the chunks written for o, and whether the
\* encoder got to the end.  On an object it cannot encode it raises
\* TypeError, and the chunks yielded up to there have been written.
RECURSIVE Enc(_, _), EncElems(_, _, _), EncItems(_, _, _)
Enc(o, level) ==
    CASE o.t = "str" -> [s |-> EncodeString(o.v), ok |-> TRUE]
      [] o.t = "null" -> [s |-> Text(<<"n", "u", "l", "l">>), ok |-> TRUE]
      [] o.t = "bool" ->
           [s |-> IF o.v THEN Text(<<"t", "r", "u", "e">>)
                  ELSE Text(<<"f", "a", "l", "s", "e">>), ok |-> TRUE]
      [] o.t = "int" -> [s |-> IntStr(o.v), ok |-> TRUE]
      [] o.t = "list" ->
           IF o.v = <<>> THEN [s |-> Text(<<"[", "]">>), ok |-> TRUE]
           ELSE LET body == EncElems(o.v, 1, level + 1)
                    open == <<Ord("[")>> \o NewlineIndent(level + 1) \o body.s
                IN  IF body.ok
                    THEN [s |-> open \o NewlineIndent(level) \o <<Ord("]")>>,
                          ok |-> TRUE]
                    ELSE [s |-> open, ok |-> FALSE]
      [] o.t = "dict" ->
           IF o.v = <<>> THEN [s |-> Text(<<"{", "}">>), ok |-> TRUE]
           ELSE LET body == EncItems(o.v, 1, level + 1)
                    open == <<Ord("{")>> \o NewlineIndent(level + 1) \o body.s
                IN  IF body.ok
                    THEN [s |-> open \o NewlineIndent(level) \o <<Ord("}")>>,
                          ok |-> TRUE]
                    ELSE [s |-> open, ok |-> FALSE]
      [] OTHER -> [s |-> <<>>, ok |-> FALSE]

EncElems(xs, i, level) ==
    IF i > Len(xs) THEN [s |-> <<>>, ok |-> TRUE]
    ELSE LET sep == IF i = 1 THEN <<>> ELSE <<Ord(",")>> \o NewlineIndent(level)
             e == Enc(xs[i], level)
         IN  IF ~e.ok THEN [s |-> sep \o e.s, ok |-> FALSE]
             ELSE LET r == EncElems(xs, i + 1, level)
                  IN  [s |-> sep \o e.s \o r.s, ok |-> r.ok]

EncItems(ps, i, level) ==
    IF i > Len(ps) THEN [s |-> <<>>, ok |-> TRUE]
    ELSE LET sep == IF i = 1 THEN <<>> ELSE <<Ord(",")>> \o NewlineIndent(level)
             key == EncodeString(ps[i][1]) \o <<Ord(":"), Ord(" ")>>
             e == Enc(ps[i][2], level)
         IN  IF ~e.ok THEN [s |-> sep \o key \o e.s, ok |-> FALSE]
             ELSE LET r == EncItems(ps, i + 1, level)
                  IN  [s |-> sep \o key \o e.s \o r.s, ok |-> r.ok]

JsonDump(data) == Enc(data, 0)

(***************************************************************************)
(* json.load(f): json.decoder's scanner.  A scan returns ok, the value and *)
(* the index after it.  Numbers are integers (the values of the model hold *)
(* no floats), and \u escapes are not decoded (EncodeString writes none    *)
(* for the characters of the model).                                       *)
(***************************************************************************)

Fail == [ok |-> FALSE, val |-> JNull, pos |-> 0]

RECURSIVE SkipWs(_, _)
SkipWs(s, i) == IF i <= Len(s) /\ IsJsonWs(s[i]) THEN SkipWs(s, i + 1) ELSE i

HasPrefix(s, i, lit) ==
    /\ i + Len(lit) - 1 <= Len(s)
    /\ \A k \in 1..Len(lit) : s[i + k - 1] = lit[k]

\* json.decoder.BACKSLASH
Unescape(e) ==
    CASE e = Ord("n") -> 10 [] e = Ord("r") -> 13 [] e = Ord("t") -> 9
      [] e = Ord("b") -> 8 [] e = Ord("f") -> 12 [] OTHER -> e

\* json.decoder.py_scanstring (strict): i is the index after the opening quote.
RECURSIVE ScanString(_, _, _)
ScanString(s, i, acc) ==
    IF i > Len(s) THEN Fail
    ELSE IF s[i] = Ord("\"") THEN [ok |-> TRUE, val |-> acc, pos |-> i + 1]
    ELSE IF s[i] = Ord("\\")
         THEN IF i + 1 <= Len(s)
                 /\ s[i + 1] \in {Ord("\""), Ord("\\"), Ord("/"), Ord("b"),
                                  Ord("f"), Ord("n"), Ord("r"), Ord("t")}
              THEN ScanString(s, i + 2, Append(acc, Unescape(s[i + 1])))
              ELSE Fail
    ELSE IF s[i] < 32 THEN Fail
    ELSE ScanString(s, i + 1, Append(acc, s[i]))

RECURSIVE DigitsEnd(_, _)
DigitsEnd(s, j) == IF j <= Len(s) /\ IsDigit(s[j]) THEN DigitsEnd(s, j + 1) ELSE j

RECURSIVE DigitsVal(_, _, _)
DigitsVal(s, a, b) ==
    IF a > b THEN 0 ELSE 10 * DigitsVal(s, a, b - 1) + (s[b] - Ord("0"))

\* json.scanner.NUMBER_RE, integer part: -?(0|[1-9]\d*)
ScanInt(s, i) ==
    LET neg == s[i] = Ord("-")
        j == IF neg THEN i + 1 ELSE i
    IN  IF j > Len(s) \/ ~IsDigit(s[j]) THEN Fail
        ELSE LET e == IF s[j] = Ord("0") THEN j + 1 ELSE DigitsEnd(s, j)
                 n == DigitsVal(s, j, e - 1)
             IN  [ok |-> TRUE, val |-> JInt(IF neg THEN -n ELSE n), pos |-> e]

\* dict[k] = v
DictSet(ps, k, v) ==
    IF \E i \in 1..Len(ps) : ps[i][1] = k
    THEN [i \in 1..Len(ps) |-> IF ps[i][1] = k THEN <<k, v>> ELSE ps[i]]
    ELSE Append(ps, <<k, v>>)

\* json.scanner.py_make_scanner._scan_once, json.decoder.JSONObject, JSONArray
RECURSIVE ScanOnce(_, _), ScanMembers(_, _, _), ScanElements(_, _, _)
ScanOnce(s, i) ==
    IF i > Len(s) THEN Fail
    ELSE CASE s[i] = Ord("\"") ->
                LET r == ScanString(s, i + 1, <<>>)
                IN  IF r.ok THEN [ok |-> TRUE, val |-> JStr(r.val), pos |-> r.pos]
                    ELSE Fail
           [] s[i] = Ord("{") ->
                LET j == SkipWs(s, i + 1)
                IN  IF j <= Len(s) /\ s[j] = Ord("}")
                    THEN [ok |-> TRUE, val |-> JDict(<<>>), pos |-> j + 1]
                    ELSE ScanMembers(s, j, <<>>)
           [] s[i] = Ord("[") ->
                LET j == SkipWs(s, i + 1)
                IN  IF j <= Len(s) /\ s[j] = Ord("]")
                    THEN [ok |-> TRUE, val |-> JList(<<>>), pos |-> j + 1]
                    ELSE ScanElements(s, j, <<>>)
           [] s[i] = Ord("n") ->
                IF HasPrefix(s, i, Text(<<"n", "u", "l", "l">>))
                THEN [ok |-> TRUE, val |-> JNull, pos |-> i + 4] ELSE Fail
           [] s[i] = Ord("t") ->
                IF HasPrefix(s, i, Text(<<"t", "r", "u", "e">>))
                THEN [ok |-> TRUE, val |-> JBool(TRUE), pos |-> i + 4] ELSE Fail
           [] s[i] = Ord("f") ->
                IF HasPrefix(s, i, Text(<<"f", "a", "l", "s", "e">>))
                THEN [ok |-> TRUE, val |-> JBool(FALSE), pos |-> i + 5] ELSE Fail
           [] s[i] = Ord("-") \/ IsDigit(s[i]) -> ScanInt(s, i)
           [] OTHER -> Fail

ScanMembers(s, j, acc) ==
    IF j > Len(s) \/ s[j] # Ord("\"") THEN Fail
    ELSE LET k == ScanString(s, j + 1, <<>>)
         IN  IF ~k.ok THEN Fail
             ELSE LET c == SkipWs(s, k.pos)
                  IN  IF c > Len(s) \/ s[c] # Ord(":") THEN Fail
                      ELSE LET v == ScanOnce(s, SkipWs(s, c + 1))
                           IN  IF ~v.ok THEN Fail
                               ELSE LET acc2 == DictSet(acc, k.val, v.val)
                                        e == SkipWs(s, v.pos)
                                    IN  IF e > Len(s) THEN Fail
                                        ELSE IF s[e] = Ord("}")
                                        THEN [ok |-> TRUE, val |-> JDict(acc2),
                                              pos |-> e + 1]
                                        ELSE IF s[e] = Ord(",")
                                        THEN ScanMembers(s, SkipWs(s, e + 1), acc2)
                                        ELSE Fail

ScanElements(s, j, acc) ==
    LET v == ScanOnce(s, j)
    IN  IF ~v.ok THEN Fail
        ELSE LET acc2 == Append(acc, v.val)
                 e == SkipWs(s, v.pos)
             IN  IF e > Len(s) THEN Fail
                 ELSE IF s[e] = Ord("]")
                 THEN [ok |-> TRUE, val |-> JList(acc2), pos |-> e + 1]
                 ELSE IF s[e] = Ord(",")
                 THEN ScanElements(s, SkipWs(s, e + 1), acc2)
                 ELSE Fail

\* json.decoder.JSONDecoder.decode: one value, then only whitespace.
JsonLoads(s) ==
    LET r == ScanOnce(s, SkipWs(s, 1))
    IN  IF r.ok /\ SkipWs(s, r.pos) = Len(s) + 1 THEN r ELSE Fail

(***************************************************************************)
(* base64.b64encode / base64.b64decode (binascii, standard alphabet)       *)
(***************************************************************************)

\* binascii table_b2a_base64
B64Char(i) ==
    IF i < 26 THEN Ord("A") + i
    ELSE IF i < 52 THEN Ord("a") + (i - 26)
    ELSE IF i < 62 THEN Ord("0") + (i - 52)
    ELSE IF i = 62 THEN Ord("+") ELSE Ord("/")

\* binascii table_a2b_base64: 64 stands for "not in the alphabet"
B64Index(c) ==
    IF c >= Ord("A") /\ c <= Ord("Z") THEN c - Ord("A")
    ELSE IF c >= Ord("a") /\ c <= Ord("z") THEN c - Ord("a") + 26
    ELSE IF IsDigit(c) THEN c - Ord("0") + 52
    ELSE IF c = Ord("+") THEN 62
    ELSE IF c = Ord("/") THEN 63 ELSE 64

Pad == Ord("=")

\* binascii.b2a_base64(newline=False)
RECURSIVE B64Encode(_, _)
B64Encode(b, i) ==
    LET left == Len(b) - i + 1
    IN  IF left <= 0 THEN <<>>
        ELSE IF left = 1
        THEN <<B64Char(b[i] \div 4), B64Char((b[i] % 4) * 16), Pad, Pad>>
        ELSE IF left = 2
        THEN <<B64Char(b[i] \div 4),
               B64Char((b[i] % 4) * 16 + b[i + 1] \div 16),
               B64Char((b[i + 1] % 16) * 4), Pad>>
        ELSE <<B64Char(b[i] \div 4),
               B64Char((b[i] % 4) * 16 + b[i + 1] \div 16),
               B64Char((b[i + 1] % 16) * 4 + b[i + 2] \div 64),
               B64Char(b[i + 2] % 64)>> \o B64Encode(b, i + 3)

b64encode(b) == B64Encode(b, 1)

\* binascii.a2b_base64(strict_mode=False): characters outside the alphabet
\* are skipped, a pad that completes a quad ends the scan, and the data
\* characters scanned must not end inside a quad.
RECURSIVE A2b(_, _, _, _, _, _)
A2b(s, i, quad_pos, leftchar, pads, out) ==
    IF i > Len(s)
    THEN [ok |-> quad_pos = 0, out |-> out]
    ELSE IF s[i] = Pad
    THEN IF quad_pos >= 2 /\ quad_pos + pads + 1 >= 4
         THEN [ok |-> TRUE, out |-> out]
         ELSE A2b(s, i + 1, quad_pos, leftchar,
                  IF quad_pos >= 2 THEN pads + 1 ELSE pads, out)
    ELSE LET c == B64Index(s[i])
         IN  IF c >= 64 THEN A2b(s, i + 1, quad_pos, leftchar, pads, out)
             ELSE CASE quad_pos = 0 -> A2b(s, i + 1, 1, c, 0, out)
                    [] quad_pos = 1 ->
                         A2b(s, i + 1, 2, c % 16, 0,
                             Append(out, leftchar * 4 + c \div 16))
                    [] quad_pos = 2 ->
                         A2b(s, i + 1, 3, c % 4, 0,
                             Append(out, leftchar * 16 + c \div 4))
                    [] quad_pos = 3 ->
                         A2b(s, i + 1, 0, 0, 0, Append(out, leftchar * 64 + c))

\* base64.b64decode(s, validate=True): a character outside the alphabet is
\* an error
b64decode_validate(s) ==
    IF \E i \in 1..Len(s) : s[i] # Pad /\ B64Index(s[i]) >= 64
    THEN [ok |-> FALSE, out |-> <<>>]
    ELSE A2b(s, 1, 0, 0, 0, <<>>)

\* base64.b64decode(s): validate is False
b64decode(s) == A2b(s, 1, 0, 0, 0, <<>>)

(***************************************************************************)
(* pickle, as joblib.dump / joblib.load use it (protocol 4), for the       *)
(* values of the model: an int of one byte, or an object pickle rejects.   *)
(***************************************************************************)

PickleProto == <<128, 4>>

\* pickle._Pickler.dump: PROTO is written straight to the file, the rest
\* goes through a frame that is written when the value has been saved.
PickleDump(o) ==
    IF o.t = "int" /\ o.v >= 0 /\ o.v < 256
    THEN [s |-> PickleProto \o <<Ord("K"), o.v, Ord(".")>>, ok |-> TRUE]
    ELSE [s |-> PickleProto, ok |-> FALSE]

\* pickle._Unpickler.load, on the contents the model's files can hold.
PickleLoad(s) ==
    IF Len(s) >= 5 /\ SubSeq(s, 1, 3) = PickleProto \o <<Ord("K")>>
                   /\ s[5] = Ord(".")
    THEN [err |-> "ok", val |-> JInt(s[4])]
    ELSE IF s = <<>> \/ s = PickleProto THEN [err |-> "EOFError", val |-> JNull]
    \* a first byte that is no opcode: NUL, 0xFF, "{", "7"
    ELSE IF s[1] \in {0, 255, Ord("{"), 55} THEN [err |-> "KeyError", val |-> JNull]
    ELSE [err |-> "unmodelled", val |-> JNull]

(***************************************************************************)
(* yaml.safe_load and ConfigBox                                            *)
(***************************************************************************)

\* open(path) in text mode, utf-8: the bytes 0xF8..0xFF never decode.
Undecodable(s) == \E i \in 1..Len(s) : s[i] >= 248

\* yaml.reader.Reader.check_printable
Unprintable(s) == \E i \in 1..Len(s) : s[i] < 32 /\ s[i] \notin {9, 10, 13}

\* A flow collection that is opened and never closed: the nesting depth,
\* counted outside double-quoted scalars, never returns to zero.  A text
\* with a single quote or a comment sign is not judged.
RECURSIVE OpenToEnd(_, _, _, _)
OpenToEnd(s, i, depth, inStr) ==
    IF i > Len(s) THEN TRUE
    ELSE IF inStr
    THEN IF s[i] = Ord("\\") THEN OpenToEnd(s, i + 2, depth, TRUE)
         ELSE OpenToEnd(s, i + 1, depth, s[i] # Ord("\""))
    ELSE IF s[i] \in {39, 35} THEN FALSE
    ELSE IF s[i] = Ord("\"") THEN OpenToEnd(s, i + 1, depth, TRUE)
    ELSE IF s[i] \in {Ord("{"), Ord("[")} THEN OpenToEnd(s, i + 1, depth + 1, FALSE)
    ELSE IF s[i] \in {Ord("}"), Ord("]")}
    THEN depth > 1 /\ OpenToEnd(s, i + 1, depth - 1, FALSE)
    ELSE OpenToEnd(s, i + 1, depth, FALSE)

UnclosedFlow(s) ==
    s # <<>> /\ s[1] \in {Ord("{"), Ord("[")} /\ OpenToEnd(s, 1, 0, FALSE)

\* yaml.safe_load(stream), on the contents the model's files can hold: an
\* empty document is None, a JSON text is the same value in YAML's flow
\* style, an unclosed flow collection is a parser error.
YamlSafeLoad(s) ==
    IF Undecodable(s) THEN [err |-> "UnicodeDecodeError", val |-> JNull]
    ELSE IF Unprintable(s) THEN [err |-> "YAMLError", val |-> JNull]
    ELSE IF \A i \in 1..Len(s) : s[i] \in {32, 10} THEN [err |-> "ok", val |-> JNull]
    ELSE IF JsonLoads(s).ok THEN [err |-> "ok", val |-> JsonLoads(s).val]
    ELSE IF UnclosedFlow(s) THEN [err |-> "YAMLError", val |-> JNull]
    ELSE [err |-> "unmodelled", val |-> JNull]

\* box.Box.__init__ with one positional argument: a mapping is wrapped
\* (keys and values kept), a str and a non-iterable raise BoxValueError.
ConfigBox(content) ==
    IF content.t = "dict" THEN [err |-> "ok", val |-> content]
    ELSE IF content.t \in {"str", "null", "bool", "int"}
    THEN [err |-> "BoxValueError", val |-> JNull]
    ELSE [err |-> "unmodelled", val |-> JNull]

(***************************************************************************)
(* The filesystem                                                          *)
(***************************************************************************)

\* A path is the sequence of its components; <<>> is the working directory.
Paths == {<<"a">>, <<"a", "b">>, <<"c">>}

NoNode == [kind |-> "none", data |-> <<>>]
DirNode == [kind |-> "dir", data |-> <<>>]
FileNode(b) == [kind |-> "file", data |-> b]

Parent(p) == SubSeq(p, 1, Len(p) - 1)

Kind(f, p) == IF p = <<>> THEN "dir" ELSE f[p].kind

\* Resolving d as a directory: ENOENT, ENOTDIR or ok.
RECURSIVE ResolveDir(_, _)
ResolveDir(f, d) ==
    IF d = <<>> THEN "ok"
    ELSE LET e == ResolveDir(f, Parent(d))
         IN  IF e # "ok" THEN e
             ELSE CASE Kind(f, d) = "dir" -> "ok"
                    [] Kind(f, d) = "file" -> "NotADirectoryError"
                    [] OTHER -> "FileNotFoundError"

\* open(p) for reading
OpenRead(f, p) ==
    LET e == ResolveDir(f, Parent(p))
    IN  IF e # "ok" THEN e
        ELSE CASE Kind(f, p) = "file" -> "ok"
               [] Kind(f, p) = "dir" -> "IsADirectoryError"
               [] OTHER -> "FileNotFoundError"

\* open(p, "w"): an existing file is truncated, a missing one is created
OpenWrite(f, p) ==
    LET e == ResolveDir(f, Parent(p))
    IN  IF e # "ok" THEN e
        ELSE IF Kind(f, p) = "dir" THEN "IsADirectoryError" ELSE "ok"

WriteFile(f, p, b) == [f EXCEPT ![p] = FileNode(b)]

\* os.mkdir(name)
Mkdir(f, name) ==
    LET e == ResolveDir(f, Parent(name))
    IN  IF e # "ok" THEN [fs |-> f, err |-> e]
        ELSE IF Kind(f, name) # "none" THEN [fs |-> f, err |-> "FileExistsError"]
        ELSE [fs |-> [f EXCEPT ![name] = DirNode], err |-> "ok"]

\* os.makedirs(name) with exist_ok left False
RECURSIVE MakedirsNoExistOk(_, _)
MakedirsNoExistOk(f, name) ==
    LET head == Parent(name)
        up == IF head # <<>> /\ Kind(f, head) = "none"
              THEN MakedirsNoExistOk(f, head) ELSE [fs |-> f, err |-> "ok"]
    IN  IF up.err \notin {"ok", "FileExistsError"} THEN up
        ELSE Mkdir(up.fs, name)

\* os.makedirs(name, exist_ok=True)
RECURSIVE Makedirs(_, _)
Makedirs(f, name) ==
    LET head == Parent(name)
        up == IF head # <<>> /\ Kind(f, head) = "none"
              THEN Makedirs(f, head) ELSE [fs |-> f, err |-> "ok"]
    IN  IF up.err \notin {"ok", "FileExistsError"} THEN up
        ELSE LET m == Mkdir(up.fs, name)
             IN  IF m.err # "ok" /\ Kind(up.fs, name) = "dir"
                 THEN [fs |-> up.fs, err |-> "ok"]
                 ELSE m

(***************************************************************************)
(* The operations of common.py.  Each is given the filesystem and the log  *)
(* and returns them as the call leaves them, with the call's outcome ("ok" *)
(* or the exception raised) and the value returned.                        *)
(***************************************************************************)

Line(msg, path) == [msg |-> msg, path |-> path]

Ret(f, lg, outcome, result) ==
    [fs |-> f, log |-> lg, outcome |-> outcome, result |-> result]

EmptyYaml == "ValueError: YAML file is empty."

\* read_yaml without its "except BoxValueError" clause
read_yaml_unwrapped(f, lg, path_to_yaml) ==
    LET o == OpenRead(f, path_to_yaml)
    IN  IF o # "ok" THEN Ret(f, lg, o, JNull)
        ELSE LET content == YamlSafeLoad(f[path_to_yaml].data)
             IN  IF content.err # "ok" THEN Ret(f, lg, content.err, JNull)
                 ELSE LET lg2 == Append(lg, Line("YAML file loaded successfully",
                                                 path_to_yaml))
                          box == ConfigBox(content.val)
                      IN  Ret(f, lg2, box.err, box.val)

\* read_yaml turning every failure of the load into the "empty" ValueError
read_yaml_wrap_all(f, lg, path_to_yaml) ==
    LET o == OpenRead(f, path_to_yaml)
    IN  IF o # "ok" THEN Ret(f, lg, o, JNull)
        ELSE LET content == YamlSafeLoad(f[path_to_yaml].data)
             IN  IF content.err # "ok" THEN Ret(f, lg, EmptyYaml, JNull)
                 ELSE LET lg2 == Append(lg, Line("YAML file loaded successfully",
                                                 path_to_yaml))
                          box == ConfigBox(content.val)
                      IN  IF box.err = "BoxValueError"
                          THEN Ret(f, lg2, EmptyYaml, JNull)
                          ELSE Ret(f, lg2, box.err, box.val)

read_yaml(f, lg, path_to_yaml) ==
    LET o == OpenRead(f, path_to_yaml)
    IN  IF o # "ok" THEN Ret(f, lg, o, JNull)
        ELSE LET content == YamlSafeLoad(f[path_to_yaml].data)
             IN  IF content.err # "ok" THEN Ret(f, lg, content.err, JNull)
                 ELSE LET lg2 == Append(lg, Line("YAML file loaded successfully",
                                                 path_to_yaml))
                          box == ConfigBox(content.val)
                      IN  IF box.err = "BoxValueError"
                          THEN Ret(f, lg2, EmptyYaml, JNull)
                          ELSE Ret(f, lg2, box.err, box.val)

RECURSIVE CreateFrom(_, _, _, _, _)
CreateFrom(f, lg, path_to_directories, i, verbose) ==
    IF i > Len(path_to_directories) THEN Ret(f, lg, "ok", JNull)
    ELSE LET path == path_to_directories[i]
             m == Makedirs(f, path)
         IN  IF m.err # "ok" THEN Ret(m.fs, lg, m.err, JNull)
             ELSE CreateFrom(m.fs,
                             IF verbose
                             THEN Append(lg, Line("Created directory at", path))
                             ELSE lg,
                             path_to_directories, i + 1, verbose)

create_directories(f, lg, path_to_directories, verbose) ==
    CreateFrom(f, lg, path_to_directories, 1, verbose)

\* save_json opening its file with "a" in place of "w"
save_json_append(f, lg, path, data) ==
    LET o == OpenWrite(f, path)
    IN  IF o # "ok" THEN Ret(f, lg, o, JNull)
        ELSE LET d == JsonDump(data)
                 s == f[path].data \o d.s
             IN  IF ~d.ok THEN Ret(WriteFile(f, path, s), lg, "TypeError", JNull)
                 ELSE Ret(WriteFile(f, path, s),
                          Append(lg, Line("JSON file saved at", path)),
                          "ok", JNull)

\* save_json serialising in memory (json.dumps) before it opens the file
save_json_dumps_first(f, lg, path, data) ==
    LET d == JsonDump(data)
        o == OpenWrite(f, path)
    IN  IF ~d.ok THEN Ret(f, lg, "TypeError", JNull)
        ELSE IF o # "ok" THEN Ret(f, lg, o, JNull)
        ELSE Ret(WriteFile(f, path, d.s),
                 Append(lg, Line("JSON file saved at", path)), "ok", JNull)

save_json(f, lg, path, data) ==
    LET o == OpenWrite(f, path)
    IN  IF o # "ok" THEN Ret(f, lg, o, JNull)
        ELSE LET d == JsonDump(data)
             IN  IF ~d.ok THEN Ret(WriteFile(f, path, d.s), lg, "TypeError", JNull)
                 ELSE Ret(WriteFile(f, path, d.s),
                          Append(lg, Line("JSON file saved at", path)),
                          "ok", JNull)

load_json(f, lg, path) ==
    LET o == OpenRead(f, path)
    IN  IF o # "ok" THEN Ret(f, lg, o, JNull)
        ELSE IF Undecodable(f[path].data) THEN Ret(f, lg, "UnicodeDecodeError", JNull)
        ELSE LET content == JsonLoads(f[path].data)
             IN  IF ~content.ok THEN Ret(f, lg, "JSONDecodeError", JNull)
                 ELSE LET lg2 == Append(lg, Line("JSON file loaded successfully from",
                                                 path))
                          box == ConfigBox(content.val)
                      IN  Ret(f, lg2, box.err, box.val)

\* headerWritten: whether the protocol header has reached the file when the
\* pickler gives up (it has with pickle._Pickler; joblib's own writers vary).
save_bin(f, lg, data, path, headerWritten) ==
    LET o == OpenWrite(f, path)
    IN  IF o # "ok" THEN Ret(f, lg, o, JNull)
        ELSE LET d == PickleDump(data)
             IN  IF ~d.ok
                 THEN Ret(WriteFile(f, path, IF headerWritten THEN d.s ELSE <<>>),
                          lg, "PicklingError", JNull)
                 ELSE Ret(WriteFile(f, path, d.s),
                          Append(lg, Line("Binary file saved at", path)),
                          "ok", JNull)

\* load_bin without its logger.info line
load_bin_silent(f, lg, path) ==
    LET o == OpenRead(f, path)
    IN  IF o # "ok" THEN Ret(f, lg, o, JNull)
        ELSE LET data == PickleLoad(f[path].data)
             IN  IF data.err # "ok" THEN Ret(f, lg, data.err, JNull)
                 ELSE Ret(f, lg, "ok", data.val)

load_bin(f, lg, path) ==
    LET o == OpenRead(f, path)
    IN  IF o # "ok" THEN Ret(f, lg, o, JNull)
        ELSE LET data == PickleLoad(f[path].data)
             IN  IF data.err # "ok" THEN Ret(f, lg, data.err, JNull)
                 ELSE Ret(f, Append(lg, Line("Binary file loaded from", path)),
                          "ok", data.val)

KB == 1024

\* int(n / d): the fraction dropped
RoundDown(n, d) == n \div d

\* round(n / d), Python 3: to the nearest integer, a tie to the even one.
Round(n, d) ==
    LET q == n \div d
        r == n % d
    IN  IF 2 * r < d THEN q
        ELSE IF 2 * r > d THEN q + 1
        ELSE IF q % 2 = 0 THEN q ELSE q + 1

\* os.path.getsize(path): st_size; of a directory, what its filesystem says.
Getsize(f, path, dirSize) ==
    LET e == ResolveDir(f, Parent(path))
    IN  IF e # "ok" THEN [err |-> e, size |-> 0]
        ELSE CASE Kind(f, path) = "file" -> [err |-> "ok", size |-> Len(f[path].data)]
               [] Kind(f, path) = "dir" -> [err |-> "ok", size |-> dirSize]
               [] OTHER -> [err |-> "FileNotFoundError", size |-> 0]

get_size(f, lg, path, dirSize) ==
    LET st == Getsize(f, path, dirSize)
    IN  IF st.err # "ok" THEN Ret(f, lg, st.err, JNull)
        ELSE LET size_in_kb == Round(st.size, KB)
             IN  Ret(f, lg, "ok",
                     Text(<<"~", " ">>) \o IntStr(size_in_kb) \o Text(<<" ", "K", "B">>))

\* decodeImage opening its file with "ab" in place of "wb"
decodeImage_append(f, lg, imgstring, fileName) ==
    LET imgdata == b64decode(imgstring)
    IN  IF ~imgdata.ok THEN Ret(f, lg, "binascii.Error", JNull)
        ELSE LET o == OpenWrite(f, fileName)
             IN  IF o # "ok" THEN Ret(f, lg, o, JNull)
                 ELSE Ret(WriteFile(f, fileName, f[fileName].data \o imgdata.out),
                          lg, "ok", JNull)

\* decodeImage opening the output file before it decodes
decodeImage_open_first(f, lg, imgstring, fileName) ==
    LET o == OpenWrite(f, fileName)
        imgdata == b64decode(imgstring)
    IN  IF o # "ok" THEN Ret(f, lg, o, JNull)
        ELSE IF ~imgdata.ok
        THEN Ret(WriteFile(f, fileName, <<>>), lg, "binascii.Error", JNull)
        ELSE Ret(WriteFile(f, fileName, imgdata.out), lg, "ok", JNull)

decodeImage(f, lg, imgstring, fileName) ==
    LET imgdata == b64decode(imgstring)
    IN  IF ~imgdata.ok THEN Ret(f, lg, "binascii.Error", JNull)
        ELSE LET o == OpenWrite(f, fileName)
             IN  IF o # "ok" THEN Ret(f, lg, o, JNull)
                 ELSE Ret(WriteFile(f, fileName, imgdata.out), lg, "ok", JNull)

encodeImageIntoBase64(f, lg, croppedImagePath) ==
    LET o == OpenRead(f, croppedImagePath)
    IN  IF o # "ok" THEN Ret(f, lg, o, JNull)
        ELSE Ret(f, lg, "ok", b64encode(f[croppedImagePath].data))

(***************************************************************************)
(* Calls.  A caller makes one call at a time; a call runs to its end (its  *)
(* return or its exception) before the next one starts.                    *)
(***************************************************************************)

Do(op, path, arg, r) ==
    /\ budget > 0
    /\ budget' = budget - 1
    /\ fs' = r.fs
    /\ log' = r.log
    /\ call' = [op |-> op, path |-> path, arg |-> arg,
                outcome |-> r.outcome, result |-> r.result]
    /\ prev' = [fs |-> fs, log |-> log, call |-> call]
    /\ UNCHANGED given

\* The base64 strings at hand: the caller's own and the one just returned.
ImgInHand ==
    given.imgs \cup (IF call.op = "encodeImageIntoBase64" /\ call.outcome = "ok"
                     THEN {call.result} ELSE {})

\* st_size of a directory (ext4 reports one block; tmpfs and others differ)
DirSizes == {0, 4096}

Call_read_yaml ==
    \E p \in Paths : Do("read_yaml", p, JNull, read_yaml(fs, log, p))

Call_create_directories ==
    \E dirs \in given.dirs, verbose \in BOOLEAN :
        Do("create_directories", <<>>, [dirs |-> dirs, verbose |-> verbose],
           create_directories(fs, log, dirs, verbose))

Call_save_json ==
    \E p \in Paths, data \in given.data :
        Do("save_json", p, data, save_json(fs, log, p, data))

Call_load_json ==
    \E p \in Paths : Do("load_json", p, JNull, load_json(fs, log, p))

Call_save_bin ==
    \E p \in Paths, data \in given.bins, headerWritten \in BOOLEAN :
        Do("save_bin", p, data, save_bin(fs, log, data, p, headerWritten))

Call_load_bin ==
    \E p \in Paths : Do("load_bin", p, JNull, load_bin(fs, log, p))

Call_get_size ==
    \E p \in Paths, dirSize \in DirSizes :
        Do("get_size", p, JNull, get_size(fs, log, p, dirSize))

Call_decodeImage ==
    \E p \in Paths, imgstring \in ImgInHand :
        Do("decodeImage", p, imgstring, decodeImage(fs, log, imgstring, p))

Call_encodeImageIntoBase64 ==
    \E p \in Paths :
        Do("encodeImageIntoBase64", p, JNull, encodeImageIntoBase64(fs, log, p))

NoCall == [op |-> "none", path |-> <<>>, arg |-> JNull, outcome |-> "ok",
           result |-> JNull]

Start(f, g, n) ==
    /\ fs = f
    /\ log = <<>>
    /\ call = NoCall
    /\ prev = [fs |-> f, log |-> <<>>, call |-> NoCall]
    /\ given = g
    /\ budget = n

PathA == <<"a">>
PathAB == <<"a", "b">>
PathC == <<"c">>

EmptyFs == [p \in Paths |-> NoNode]

(***************************************************************************)
(* Spec: a session of up to MaxCalls calls to any of the nine operations,  *)
(* from one of a few filesystems.                                          *)
(***************************************************************************)

MaxCalls == 2

KeyK == Text(<<"k">>)
KeyL == Text(<<"l">>)

SmallMapping == JDict(<< <<KeyK, JInt(1)>> >>)
\* a dict whose second value json and pickle cannot encode
BadMapping == JDict(<< <<KeyK, JInt(1)>>, <<KeyL, JObj>> >>)

SessionGiven ==
    [data |-> {SmallMapping, BadMapping},
     bins |-> {JInt(7), JObj},
     \* base64 of nothing, of "{" and of "7", and a string with no padding
     imgs |-> {<<>>, Text(<<"e", "w", "=", "=">>), Text(<<"N", "w", "=", "=">>),
               Text(<<"e", "w">>)},
     dirs |-> {<<PathAB>>, <<PathC, PathA>>}]

SessionFs ==
    { EmptyFs,
      \* a config directory with an empty file and a saved mapping
      [EmptyFs EXCEPT ![PathA] = DirNode, ![PathAB] = FileNode(<<>>),
                      ![PathC] = FileNode(JsonDump(SmallMapping).s)],
      \* a regular file where a directory is wanted, holding "{"
      [EmptyFs EXCEPT ![PathA] = FileNode(<<Ord("{")>>)] }

Init == \E f \in SessionFs : Start(f, SessionGiven, MaxCalls)

Next ==
    \/ Call_read_yaml
    \/ Call_create_directories
    \/ Call_save_json
    \/ Call_load_json
    \/ Call_save_bin
    \/ Call_load_bin
    \/ Call_get_size
    \/ Call_decodeImage
    \/ Call_encodeImageIntoBase64

Spec == Init /\ [][Next]_vars

\* Every outcome is one the model accounts for, and the filesystem is a tree.
Modelled ==
    /\ call.outcome # "unmodelled"
    /\ \A p \in Paths : fs[p].kind # "none" => Kind(fs, Parent(p)) = "dir"

(***************************************************************************)
(* Properties of a session                                                 *)
(***************************************************************************)

Failed == call.op # "none" /\ call.outcome # "ok"

\* The call read an existing regular file.
Read(op) == call.op = op /\ OpenRead(prev.fs, call.path) = "ok"

DataBefore == prev.fs[call.path].data

\* A document with nothing in it: the YAML parser yields None.
Blank(s) == \A i \in 1..Len(s) : s[i] \in {32, 10}

\* A document the YAML parser rejects.
Malformed(s) == ~Undecodable(s) /\ (Unprintable(s) \/ UnclosedFlow(s))

\* The path is missing from a directory that exists.
Missing(f, p) == ResolveDir(f, Parent(p)) = "ok" /\ Kind(f, p) = "none"

\* C3: read_yaml on an existing file with empty content ends in
\* ValueError("YAML file is empty.") and returns no mapping.
C3_EmptyYamlRaisesValueError ==
    (Read("read_yaml") /\ Blank(DataBefore)) => call.outcome = EmptyYaml

C3_Witness ==
    Read("read_yaml") /\ DataBefore = <<>> /\ call.outcome = EmptyYaml

DirSet(f) == {p \in Paths : f[p].kind = "dir"}

\* The call and the one before it are create_directories with the same list.
Repeated ==
    /\ call.op = "create_directories" /\ prev.call.op = "create_directories"
    /\ call.arg.dirs = prev.call.arg.dirs

Range(s) == {s[i] : i \in 1..Len(s)}

\* C5: create_directories called again with the same list, after a call that
\* returned, raises nothing and leaves the set of directories as that call
\* left it; a list of directories that all exist raises nothing either.
C5_CreateDirectoriesIdempotent ==
    /\ Repeated => DirSet(fs) = DirSet(prev.fs)
    /\ (Repeated /\ prev.call.outcome = "ok") => call.outcome = "ok" /\ fs = prev.fs
    /\ (call.op = "create_directories" /\ Range(call.arg.dirs) \subseteq DirSet(prev.fs))
          => call.outcome = "ok" /\ fs = prev.fs

C5_Witness ==
    /\ Repeated /\ prev.call.outcome = "ok" /\ call.outcome = "ok"
    /\ Range(call.arg.dirs) # {} /\ Range(call.arg.dirs) \subseteq DirSet(fs)

OpenErrors == {"FileNotFoundError", "NotADirectoryError", "IsADirectoryError"}

Writers == {"save_json", "save_bin", "decodeImage", "create_directories"}

OthersUnchanged == \A q \in Paths \ {call.path} : fs[q] = prev.fs[q]

IsPrefix(q, p) == Len(q) <= Len(p) /\ SubSeq(p, 1, Len(q)) = q

\* create_directories stopped at its k-th path, the earlier ones made.
StoppedAt(k) ==
    LET dirs == call.arg.dirs
    IN  /\ \A j \in 1..(k - 1) : Kind(fs, dirs[j]) = "dir"
        /\ Kind(fs, dirs[k]) # "dir"
        /\ \A q \in Paths :
              fs[q] # prev.fs[q] =>
                 /\ prev.fs[q].kind = "none" /\ fs[q].kind = "dir"
                 /\ \E j \in 1..(k - 1) : IsPrefix(q, dirs[j])

\* C8, as claimed: a call to save_json, save_bin, decodeImage or
\* create_directories that ends in an error leaves the filesystem as it was.
C8_FailedCallChangesNothing ==
    (call.op \in Writers /\ Failed) => fs = prev.fs

\* C8, amended: a failing call leaves the filesystem as it was when it fails
\* before it writes: decodeImage always, save_json and save_bin when the
\* target cannot be opened.  save_json or save_bin failing while it
\* serialises leaves the target created or truncated, holding an incomplete
\* document, and every other path as it was; create_directories failing at
\* a path leaves the directories of the paths before it made and changes
\* nothing else.
C8_FailedCallLeavesWhatItWrote ==
    /\ (call.op = "decodeImage" /\ Failed) => fs = prev.fs
    /\ (call.op \in {"save_json", "save_bin"} /\ call.outcome \in OpenErrors)
          => fs = prev.fs
    /\ (call.op = "save_json" /\ Failed /\ call.outcome \notin OpenErrors)
          => /\ call.outcome = "TypeError" /\ OthersUnchanged
             /\ fs[call.path].kind = "file"
             /\ ~JsonLoads(fs[call.path].data).ok
    /\ (call.op = "save_bin" /\ Failed /\ call.outcome \notin OpenErrors)
          => /\ call.outcome = "PicklingError" /\ OthersUnchanged
             /\ fs[call.path].kind = "file"
             /\ PickleLoad(fs[call.path].data).err # "ok"
    /\ (call.op = "create_directories" /\ Failed)
          => \E k \in 1..Len(call.arg.dirs) : StoppedAt(k)

C8_Witness ==
    /\ call.op = "save_json" /\ call.outcome = "TypeError"
    /\ prev.fs[call.path].kind = "file" /\ JsonLoads(DataBefore).ok
    /\ ~JsonLoads(fs[call.path].data).ok

Logged(lines) == log = prev.log \o lines

Named(s) == [i \in 1..Len(s) |-> Line("Created directory at", s[i])]

Message(op) ==
    CASE op = "read_yaml" -> "YAML file loaded successfully"
      [] op = "save_json" -> "JSON file saved at"
      [] op = "load_json" -> "JSON file loaded successfully from"
      [] op = "save_bin" -> "Binary file saved at"
      [] op = "load_bin" -> "Binary file loaded from"

\* C9, as claimed: a call that succeeds appends exactly one log line naming
\* its path, and a call that fails appends none.
C9_OneLinePerSuccess ==
    /\ (call.op # "none" /\ call.outcome = "ok")
          => \E l \in Range(log) :
                /\ Logged(<<l>>)
                /\ l.path \in IF call.op = "create_directories"
                              THEN Range(call.arg.dirs) ELSE {call.path}
    /\ Failed => Logged(<<>>)

\* C9, amended: read_yaml, save_json, load_json, save_bin and load_bin append
\* one line naming their path when they succeed; create_directories appends
\* one line per listed path when verbose and none otherwise; get_size,
\* decodeImage and encodeImageIntoBase64 append none.  A failing call appends
\* none, except that read_yaml and load_json have written their line when
\* wrapping the loaded content in a ConfigBox fails, and create_directories
\* has written the lines of the paths before the one it failed at.
C9_LinesPerCall ==
    /\ (call.op \in {"read_yaml", "save_json", "load_json", "save_bin", "load_bin"}
          /\ call.outcome = "ok")
          => Logged(<<Line(Message(call.op), call.path)>>)
    /\ call.op \in {"get_size", "decodeImage", "encodeImageIntoBase64"}
          => Logged(<<>>)
    /\ (call.op = "create_directories" /\ call.outcome = "ok")
          => Logged(IF call.arg.verbose THEN Named(call.arg.dirs) ELSE <<>>)
    /\ (call.op = "create_directories" /\ Failed)
          => \E k \in 1..Len(call.arg.dirs) :
                /\ StoppedAt(k)
                /\ Logged(IF call.arg.verbose
                          THEN Named(SubSeq(call.arg.dirs, 1, k - 1)) ELSE <<>>)
    /\ (call.op \in {"save_json", "save_bin", "load_bin"} /\ Failed) => Logged(<<>>)
    /\ (call.op \in {"read_yaml", "load_json"} /\ Failed)
          => IF call.outcome \in {EmptyYaml, "BoxValueError"}
             THEN Logged(<<Line(Message(call.op), call.path)>>)
             ELSE Logged(<<>>)

C9_Witness ==
    /\ call.op = "load_json" /\ call.outcome = "BoxValueError"
    /\ Logged(<<Line(Message("load_json"), call.path)>>)

\* C10: when decodeImage fails because its input cannot be decoded, the
\* output path is as it was: an existing file keeps its content, a missing
\* one is not created.
C10_DecodeErrorLeavesOutput ==
    (call.op = "decodeImage" /\ call.outcome = "binascii.Error")
       => fs[call.path] = prev.fs[call.path] /\ fs = prev.fs

C10_Witness ==
    /\ call.op = "decodeImage" /\ call.outcome = "binascii.Error"
    /\ prev.fs[call.path].kind = "file" /\ DataBefore # <<>>
    /\ fs[call.path] = prev.fs[call.path]

(***************************************************************************)
(* SpecJson: the caller holds one mapping, saves it and loads.             *)
(***************************************************************************)

MaxNest == 1

KeyQ == Text(<<"\"", "\\">>)

JsonKeys == {KeyK, KeyQ}

JsonScalars ==
    {JNull, JBool(TRUE), JInt(-120), JStr(Text(<<"k", "\"", "\\", "\n">>))}

\* The values nested up to d containers deep.
RECURSIVE JsonValues(_)
JsonValues(d) ==
    IF d = 0 THEN JsonScalars
    ELSE LET V == JsonValues(d - 1)
         IN  JsonScalars \cup {JList(<<>>), JDict(<<>>)}
               \cup {JList(<<x>>) : x \in V}
               \cup {JList(<<x, JInt(0)>>) : x \in JsonScalars}
               \cup {JDict(<< <<k, x>> >>) : k \in JsonKeys, x \in V}

\* The mappings a JSON document can represent: str keys, JSON values.
JsonMappings ==
    {JDict(<<>>)}
      \cup {JDict(<< <<k, x>> >>) : k \in JsonKeys, x \in JsonValues(MaxNest)}
      \cup {JDict(<< <<KeyK, x>>, <<KeyQ, y>> >>) :
               x \in JsonValues(MaxNest), y \in JsonScalars}
      \cup {JDict(<< <<KeyQ, y>>, <<KeyK, x>> >>) :
               x \in JsonValues(MaxNest), y \in JsonScalars}

Holding(data, imgs) == [data |-> data, bins |-> {}, imgs |-> imgs, dirs |-> {}]

WithDirA == [EmptyFs EXCEPT ![PathA] = DirNode]

JsonFs ==
    { WithDirA,
      \* files already there: another mapping, and bytes that are no text
      [WithDirA EXCEPT ![PathAB] = FileNode(JsonDump(SmallMapping).s),
                       ![PathC] = FileNode(<<255>>)] }

InitJson == \E m \in JsonMappings, f \in JsonFs : Start(f, Holding({m}, {}), 2)

NextJson ==
    \/ Call_save_json
    \/ Call_load_json

SpecJson == InitJson /\ [][NextJson]_vars

\* C1: for a mapping m a JSON document can represent and a path p,
\* save_json(p, m) followed by load_json(p) returns a mapping equal to m.
C1_JsonRoundTrip ==
    (/\ call.op = "load_json" /\ prev.call.op = "save_json"
     /\ prev.call.outcome = "ok" /\ prev.call.path = call.path)
       => call.outcome = "ok" /\ call.result = prev.call.arg

C1_Witness ==
    /\ call.op = "load_json" /\ prev.call.op = "save_json"
    /\ prev.call.path = call.path /\ call.outcome = "ok"
    /\ call.result = prev.call.arg
    /\ Len(call.result.v) = 2 /\ call.result.v[2][2].t = "list"

(***************************************************************************)
(* SpecB64: the caller holds an image file, encodes it and decodes the     *)
(* string into a file; or holds one string and decodes it.                 *)
(***************************************************************************)

MaxBytesLen == 3
MaxStrLen == 5

ByteSamples == {0, 123, 255}

ByteSeqs == UNION {[1..n -> ByteSamples] : n \in 0..MaxBytesLen}

\* two characters of the alphabet, the pad and one outside the alphabet
CharSamples == {Ord("A"), Ord("/"), Pad, Ord("!")}

ImgStrings == UNION {[1..n -> CharSamples] : n \in 0..MaxStrLen}

ImageFs(b) ==
    { [WithDirA EXCEPT ![PathC] = FileNode(b)],
      [WithDirA EXCEPT ![PathC] = FileNode(b),
                       ![PathAB] = FileNode(<<1, 2, 3, 4, 5>>)] }

InitB64 ==
    \/ \E b \in ByteSeqs : \E f \in ImageFs(b) : Start(f, Holding({}, {}), 2)
    \/ \E s \in ImgStrings, f \in ImageFs(<<7>>) : Start(f, Holding({}, {s}), 1)

NextB64 ==
    \/ Call_encodeImageIntoBase64
    \/ Call_decodeImage

SpecB64 == InitB64 /\ [][NextB64]_vars

\* C2: for a file f holding bytes b and an output path g that can be
\* written, decodeImage(encodeImageIntoBase64(f), g) leaves g holding
\* exactly b, whatever g held before.
C2_Base64RoundTrip ==
    (/\ call.op = "decodeImage" /\ prev.call.op = "encodeImageIntoBase64"
     /\ prev.call.outcome = "ok" /\ call.arg = prev.call.result
     /\ OpenWrite(prev.fs, call.path) = "ok")
       => /\ call.outcome = "ok"
          /\ fs[call.path] = FileNode(prev.fs[prev.call.path].data)

C2_Witness ==
    /\ call.op = "decodeImage" /\ prev.call.op = "encodeImageIntoBase64"
    /\ prev.call.outcome = "ok" /\ call.arg = prev.call.result
    /\ call.path # prev.call.path
    /\ prev.fs[call.path].kind = "file"
    /\ Len(prev.fs[call.path].data) > Len(prev.fs[prev.call.path].data)
    /\ Len(fs[call.path].data) = 2
    /\ fs[call.path].data = prev.fs[prev.call.path].data

InAlphabet(c) == B64Index(c) < 64

\* RFC 4648: quads of alphabet characters, the last one padded with at most
\* two "=".
WellFormed(s) ==
    /\ Len(s) % 4 = 0
    /\ \A i \in 1..Len(s) :
          \/ InAlphabet(s[i])
          \/ s[i] = Pad /\ i >= Len(s) - 1 /\ (i = Len(s) \/ s[Len(s)] = Pad)

Pads(s) == Cardinality({i \in 1..Len(s) : s[i] = Pad})

\* s without the characters that are neither in the alphabet nor the pad
RECURSIVE Strip(_)
Strip(s) ==
    IF s = <<>> THEN <<>>
    ELSE (IF InAlphabet(Head(s)) \/ Head(s) = Pad THEN <<Head(s)>> ELSE <<>>)
            \o Strip(Tail(s))

MaxFileBytes == 2600

InitSize ==
    \E n \in 0..MaxFileBytes :
        Start([EmptyFs EXCEPT ![PathC] = FileNode([i \in 1..n |-> 0])],
              Holding({}, {}), 1)

NextSize == Call_get_size

SpecSize == InitSize /\ [][NextSize]_vars

\* The number a string "~ N KB" states, or -1 if the string is no such
\* string.
KbOf(s) ==
    LET m == Len(s) - 5
    IN  IF /\ m >= 1
           /\ SubSeq(s, 1, 2) = Text(<<"~", " ">>)
           /\ SubSeq(s, m + 3, m + 5) = Text(<<" ", "K", "B">>)
           /\ \A i \in 3..(m + 2) : IsDigit(s[i])
           /\ (m > 1 => s[3] # Ord("0"))
        THEN DigitsVal(s, 3, m + 2) ELSE -1

\* C6: for a file of n bytes get_size returns "~ N KB" with N an integer
\* nearest to n/1024; a file of 2048 bytes gives "~ 2 KB".
C6_SizeInNearestKb ==
    (call.op = "get_size" /\ prev.fs[call.path].kind = "file")
       => LET n == Len(prev.fs[call.path].data)
              N == KbOf(call.result)
          IN  /\ call.outcome = "ok"
              /\ N >= 0
              /\ 2 * N * 1024 - 2 * n <= 1024
              /\ 2 * n - 2 * N * 1024 <= 1024
              /\ n = 2048 => call.result = <<126, 32, 50, 32, 75, 66>>

C6_Witness ==
    /\ call.op = "get_size" /\ call.outcome = "ok"
    /\ Len(prev.fs[call.path].data) = 2048
    /\ call.result = <<126, 32, 50, 32, 75, 66>>

====
